---------------------------- MODULE Spec2Model ----------------------------
(***************************************************************************)
(* NeoTrade offline-caching / background-sync service workers.             *)
(*                                                                         *)
(* The repository ships two worker scripts, src/service-worker.js and      *)
(* src/sw.js.  One of them is registered as the worker; `script` says      *)
(* which.  The model follows the worker through install, activate and the  *)
(* functional events it handles (fetch, message, sync, periodicsync, the   *)
(* cleanup timer), one action per suspension point (await / .then) of each *)
(* handler.                                                                *)
(*                                                                         *)
(* CacheStorage is modelled as the platform defines it: an ordered list    *)
(* of named caches, each bound to a cache object holding an ordered list   *)
(* of request/response pairs.  Deleting a name unbinds the object; code    *)
(* that still holds the handle keeps operating on the unbound object.      *)
(***************************************************************************)
EXTENDS Integers, Sequences, FiniteSets, TLC

(***************************************************************************)
(* Bounds of the model.                                                    *)
(***************************************************************************)
\* Functional events (fetch, message, sync, periodicsync, timer) dispatched
\* in one behaviour.
MaxEvents == 2
\* Date.now() reads a value in 1..MaxClock.
MaxClock == 2
\* Trades the page itself has stored in 'offline-data': up to MaxTrades.
MaxTrades == 2

(***************************************************************************)
(* The two scripts and their constants.                                    *)
(***************************************************************************)
SVC == "service-worker.js"
SWJ == "sw.js"
Scripts == {SVC, SWJ}

\* service-worker.js:2
SVC_CACHE_NAME == "neotrade-v1.0.0"
\* sw.js:3, sw.js:4
STATIC_CACHE_NAME == "neotrade-static-v4"
DYNAMIC_CACHE_NAME == "neotrade-dynamic-v4"
\* service-worker.js:184, 258
OFFLINE_DATA == "offline-data"
\* A cache left behind by an earlier generation of the worker.
OLD_CACHE == "neotrade-v0"

(***************************************************************************)
(* URLs.  A URL is its host (a tuple of labels) and its path (a tuple of   *)
(* segments); the worker's own origin is the host <<"app">>.               *)
(***************************************************************************)
Origin == <<"app">>
Url(h, p) == [host |-> h, path |-> p]

\* Decimal numerals, as they appear in urls, and the bodies of the stored
\* trades: the n-th saveOfflineData call's data, the page's n-th trade.
Str(n) == <<"1", "2", "3", "4", "5", "6", "7", "8", "9">>[n]
SaveBody(n) == <<"s1", "s2", "s3", "s4", "s5", "s6", "s7", "s8", "s9">>[n]
PageBody(n) == <<"p1", "p2", "p3", "p4", "p5", "p6", "p7", "p8", "p9">>[n]

U_root     == Url(Origin, <<>>)
U_index    == Url(Origin, <<"index.html">>)
U_manifest == Url(Origin, <<"manifest.json">>)
U_fa       == Url(<<"cdnjs", "cloudflare", "com">>, <<"ajax", "libs", "all.min.css">>)
U_fonts    == Url(<<"fonts", "googleapis", "com">>, <<"css2">>)
U_icon     == Url(Origin, <<"icon-192.png">>)
U_api      == Url(Origin, <<"api", "prices">>)
U_ticker   == Url(<<"fapi", "binance", "com">>, <<"fapi", "v1", "ticker", "24hr">>)
U_me       == Url(<<"api", "binance", "me">>, <<"api", "v3", "ticker">>)

\* service-worker.js:3-8
CACHE_URLS == {U_root, U_index, U_manifest, U_fa}
\* sw.js:6-12
STATIC_ASSETS == {U_root, U_index, U_manifest, U_fa, U_fonts}

\* s occurs in t as a run of consecutive elements (String.prototype.includes,
\* at the granularity of host labels / path segments).
Includes(t, s) ==
  \E i \in 0..(Len(t) - Len(s)) : \A j \in 1..Len(s) : t[i + j] = s[j]

\* url.pathname.includes('/api/'): a segment "api" followed by a slash.
PathIncludesApi(u) == \E i \in 1..(Len(u.path) - 1) : u.path[i] = "api"

\* key.url.includes('/api/trades')
UrlIncludesApiTrades(u) == Includes(u.path, <<"api", "trades">>)

(***************************************************************************)
(* Requests and responses.                                                 *)
(***************************************************************************)
Request(u, m) == [url |-> u, method |-> m]
\* response.headers.get('date') as a clock reading; NoDate when the response
\* has no Date header or, cross-origin, does not expose it to scripts.
NoDate == -1
Response(s, t, b) == [status |-> s, type |-> t, body |-> b, date |-> NoDate]
Dated(r, t) == [r EXCEPT !.date = t]

\* What a promise that resolves to undefined, or rejects, carries.
Undefined == Response(0, "undefined", "none")
NetworkError == Response(0, "error", "none")

\* response.ok
Ok(r) == r.status >= 200 /\ r.status <= 299

Bodies == {"b1", "b2"}

\* What the network may answer for a url: same-origin responses are
\* 'basic', cross-origin ones 'cors' or opaque (status 0).
NetResponses(u) ==
  IF u.host = Origin
    THEN {Response(200, "basic", b) : b \in Bodies}
           \cup {Response(206, "basic", "b1"), Response(404, "basic", "b1")}
    ELSE {Response(200, "cors", b) : b \in Bodies}
           \cup {Response(0, "opaque", "b1"), Response(404, "cors", "b1")}

(***************************************************************************)
(* Cache and CacheStorage operations (the platform's, as the handlers call *)
(* them).  A cache object is a sequence of [url, resp] pairs.              *)
(***************************************************************************)
Item(u, r) == [url |-> u, resp |-> r]

RECURSIVE FirstMatch(_, _)
FirstMatch(items, u) ==
  IF items = <<>> THEN Undefined
  ELSE IF Head(items).url = u THEN Head(items).resp
  ELSE FirstMatch(Tail(items), u)

\* cache.match(request): only GET requests match.
CacheMatch(items, req) ==
  IF req.method # "GET" THEN Undefined ELSE FirstMatch(items, req.url)

\* cache.put(request, response) rejects for a non-GET request and for a
\* 206 response; otherwise it replaces the pair of that url, at the end.
PutRejects(req, resp) == req.method # "GET" \/ resp.status = 206

CachePut(items, req, resp) ==
  IF PutRejects(req, resp) THEN items
  ELSE Append(SelectSeq(items, LAMBDA it : it.url # req.url), Item(req.url, resp))

\* cache.delete(request)
CacheDelete(items, u) == SelectSeq(items, LAMBDA it : it.url # u)

\* cache.keys()
CacheKeys(items) == [i \in 1..Len(items) |-> items[i].url]

VARIABLES
  script,       \* which file is the registered worker
  wstate,       \* the worker's lifecycle state
  active,       \* the registration's active worker: "old" or "new" version
  skipFlag,     \* the worker's skip-waiting flag
  installPc,    \* position of the install handler's promise chain
  activatePc,   \* position of the activate handler's promise chain
  toDelete,     \* caches.delete calls of the activate handler still pending
  claimed,      \* clients.claim() has run: the open page is controlled
  names,        \* CacheStorage: sequence of [name, obj], in creation order
  objs,         \* cache objects: objs[i] is a sequence of [url, resp]
  now,          \* the last reading of Date.now()
  fetches,      \* fetch events, in dispatch order
  saves,        \* saveOfflineData calls, in call order
  drains,       \* syncOfflineTrades calls, in call order
  outbox,       \* messages posted to the clients, in posting order
  markets,      \* syncMarketData calls, in call order
  sweeps        \* cleanupOldCache runs, in call order

vars == <<script, wstate, active, skipFlag, installPc, activatePc, toDelete, claimed,
          names, objs, now, fetches, saves, drains, outbox, markets, sweeps>>

lifecycleVars == <<wstate, skipFlag, installPc, activatePc, toDelete, claimed>>
storeVars == <<names, objs>>
eventVars == <<fetches, saves, drains, outbox>>
backgroundVars == <<markets, sweeps>>

(***************************************************************************)
(* CacheStorage over the state.                                            *)
(***************************************************************************)
NameSet == {names[i].name : i \in 1..Len(names)}

\* caches.has(n)
HasCache(n) == n \in NameSet

ObjOf(n) == names[CHOOSE i \in 1..Len(names) : names[i].name = n].obj

\* The pairs stored under name n (none when the name is unbound).
ItemsOf(n) == IF HasCache(n) THEN objs[ObjOf(n)] ELSE <<>>

\* caches.open(n): the handle; creates the cache when the name is unbound.
OpenHandle(n) == IF HasCache(n) THEN ObjOf(n) ELSE Len(objs) + 1
OpenNames(n) ==
  IF HasCache(n) THEN names ELSE Append(names, [name |-> n, obj |-> Len(objs) + 1])
OpenObjs(n) == IF HasCache(n) THEN objs ELSE Append(objs, <<>>)

\* caches.delete(n)
DeleteName(n) == SelectSeq(names, LAMBDA e : e.name # n)

\* caches.keys()
CachesKeys == {names[i].name : i \in 1..Len(names)}

\* caches.match(request): the first match, over the caches in creation order.
RECURSIVE StorageMatch(_, _)
StorageMatch(ns, req) ==
  IF ns = <<>> THEN Undefined
  ELSE LET r == CacheMatch(objs[Head(ns).obj], req)
       IN IF r # Undefined THEN r ELSE StorageMatch(Tail(ns), req)

CachesMatch(req) == StorageMatch(names, req)


(***************************************************************************)
(* Initial states.  The script is evaluated each time the platform starts  *)
(* the worker: to install a new version ("parsed", beside whatever the     *)
(* previous generation left in CacheStorage), or to run an already         *)
(* activated one ("activated", with its precached manifest).  CacheStorage *)
(* is shared with the page, which may have stored trades of its own under  *)
(* '/api/trades/<n>' keys in 'offline-data' (the keys syncOfflineTrades    *)
(* looks for).                                                             *)
(***************************************************************************)
\* The response addAll stores for a manifest url.
Precached(u) == Response(200, IF u.host = Origin THEN "basic" ELSE "cors", "b1")

\* Set to sequence, in some fixed order.
RECURSIVE SetToSeq(_)
SetToSeq(S) ==
  IF S = {} THEN <<>>
  ELSE LET x == CHOOSE y \in S : TRUE IN <<x>> \o SetToSeq(S \ {x})

ManifestItems(urls) ==
  LET q == SetToSeq(urls) IN [i \in 1..Len(q) |-> Item(q[i], Precached(q[i]))]

\* The page's own trade n, as stored in 'offline-data'.
TradeUrl(n) == Url(Origin, <<"api", "trades", Str(n)>>)
TradeItem(n) == Item(TradeUrl(n), Response(200, "default", PageBody(n)))
PageTrades(k) == [i \in 1..k |-> TradeItem(i)]

Manifest(s) == IF s = SVC THEN CACHE_URLS ELSE STATIC_ASSETS
PrecacheName(s) == IF s = SVC THEN SVC_CACHE_NAME ELSE STATIC_CACHE_NAME

\* The cache names of the current generation.
CurrentNames(s) ==
  IF s = SVC THEN {SVC_CACHE_NAME} ELSE {STATIC_CACHE_NAME, DYNAMIC_CACHE_NAME}

Bind(ns) == [i \in 1..Len(ns) |-> [name |-> ns[i], obj |-> i]]

\* CacheStorage before a new version installs.
PriorStores(s) ==
  {[names |-> <<>>, objs |-> <<>>],
   [names |-> Bind(<<OLD_CACHE>>),
    objs |-> <<ManifestItems({U_index})>>]}
  \cup
  (IF s = SVC
     THEN {[names |-> Bind(<<OLD_CACHE, OFFLINE_DATA>>),
            objs |-> <<ManifestItems({U_index}), PageTrades(k)>>] : k \in 1..MaxTrades}
     ELSE {})

\* What sw.js's network-first branch stored in the dynamic cache in an
\* earlier run of the worker (at clock reading 0): responses of both API
\* hosts, with a readable Date header.
PriorDynamic ==
  <<Item(U_ticker, Dated(Response(200, "cors", "b1"), 0)),
    Item(U_me, Dated(Response(200, "cors", "b1"), 0))>>

\* CacheStorage of a worker that was installed and activated earlier.
RunningStores(s) ==
  {[names |-> Bind(<<PrecacheName(s)>>), objs |-> <<ManifestItems(Manifest(s))>>]}
  \cup
  (IF s = SVC
     THEN {[names |-> Bind(<<SVC_CACHE_NAME, OFFLINE_DATA>>),
            objs |-> <<ManifestItems(CACHE_URLS), PageTrades(k)>>] : k \in 1..MaxTrades}
     ELSE {[names |-> Bind(<<STATIC_CACHE_NAME, DYNAMIC_CACHE_NAME>>),
            objs |-> <<ManifestItems(STATIC_ASSETS), PriorDynamic>>]})

Init ==
  /\ script \in Scripts
  /\ \E running \in BOOLEAN :
       /\ wstate = IF running THEN "activated" ELSE "parsed"
       /\ active = IF running THEN "new" ELSE "old"
       /\ skipFlag = running
       /\ installPc = IF running THEN "done" ELSE "idle"
       /\ activatePc = IF running THEN "done" ELSE "idle"
       /\ claimed = running
       /\ \E st \in (IF running THEN RunningStores(script) ELSE PriorStores(script)) :
            /\ names = st.names
            /\ objs = st.objs
  /\ toDelete = {}
  /\ now = 1
  /\ fetches = <<>>
  /\ saves = <<>>
  /\ drains = <<>>
  /\ outbox = <<>>
  /\ markets = <<>>
  /\ sweeps = <<>>

(***************************************************************************)
(* Install.                                                                *)
(***************************************************************************)
\* cache.addAll(urls) with the urls in `failed` not fetched (or not ok):
\* all pairs are stored, or none is.
AddAllStores(failed) == failed = {}

AddAll(h, urls) ==
  [objs EXCEPT ![h] =
     LET q == SetToSeq(urls)
         RECURSIVE PutAll(_, _)
         PutAll(items, i) ==
           IF i > Len(q) THEN items
           ELSE PutAll(CachePut(items, Request(q[i], "GET"), Precached(q[i])), i + 1)
     IN PutAll(objs[h], 1)]

\* A faulty variant: a rejected addAll is swallowed.
AddAllSwallowed(failed) == "resolved"

\* How the promise chain opened by caches.open(...).then(cache =>
\* cache.addAll(urls)) settles.
AddAllOutcome(failed) == IF AddAllStores(failed) THEN "resolved" ELSE "rejected"

\* service-worker.js: the install listener starts caches.open(CACHE_NAME).
SvcInstall ==
  /\ script = SVC /\ wstate = "parsed"
  /\ wstate' = "installing"
  /\ installPc' = "open"
  /\ UNCHANGED <<script, backgroundVars, active, skipFlag, activatePc, toDelete, claimed, now>>
  /\ UNCHANGED <<storeVars, eventVars>>

\* sw.js: the install listener starts caches.open(STATIC_CACHE_NAME) and
\* calls self.skipWaiting() at once.
SwInstall ==
  /\ script = SWJ /\ wstate = "parsed"
  /\ wstate' = "installing"
  /\ installPc' = "open"
  /\ skipFlag' = TRUE
  /\ UNCHANGED <<script, backgroundVars, active, activatePc, toDelete, claimed, now>>
  /\ UNCHANGED <<storeVars, eventVars>>

\* caches.open(...) of the install handler resolves.
InstallOpen ==
  /\ installPc = "open"
  /\ names' = OpenNames(PrecacheName(script))
  /\ objs' = OpenObjs(PrecacheName(script))
  /\ installPc' = "addAll"
  /\ UNCHANGED <<script, backgroundVars, wstate, active, skipFlag, activatePc, toDelete, claimed, now>>
  /\ UNCHANGED eventVars

\* cache.addAll(CACHE_URLS) settles; on success service-worker.js goes on
\* to .then(() => self.skipWaiting()).
SvcInstallAddAll ==
  /\ script = SVC /\ installPc = "addAll"
  /\ \E failed \in SUBSET CACHE_URLS :
       /\ objs' = IF AddAllStores(failed)
                    THEN AddAll(ObjOf(SVC_CACHE_NAME), CACHE_URLS) ELSE objs
       /\ installPc' = IF AddAllOutcome(failed) = "resolved"
                         THEN "skipWaiting" ELSE "rejected"
  /\ UNCHANGED <<script, backgroundVars, wstate, active, skipFlag, activatePc, toDelete, claimed, now>>
  /\ UNCHANGED <<names, eventVars>>

\* .then(() => self.skipWaiting())
SvcInstallSkipWaiting ==
  /\ script = SVC /\ installPc = "skipWaiting"
  /\ skipFlag' = TRUE
  /\ installPc' = "resolved"
  /\ UNCHANGED <<script, backgroundVars, wstate, active, activatePc, toDelete, claimed, now>>
  /\ UNCHANGED <<storeVars, eventVars>>

\* cache.addAll(STATIC_ASSETS) settles, and with it the waitUntil promise.
SwInstallAddAll ==
  /\ script = SWJ /\ installPc = "addAll"
  /\ \E failed \in SUBSET STATIC_ASSETS :
       /\ objs' = IF AddAllStores(failed)
                    THEN AddAll(ObjOf(STATIC_CACHE_NAME), STATIC_ASSETS) ELSE objs
       /\ installPc' = AddAllOutcome(failed)
  /\ UNCHANGED <<script, backgroundVars, wstate, active, skipFlag, activatePc, toDelete, claimed, now>>
  /\ UNCHANGED <<names, eventVars>>

\* The promise given to event.waitUntil has settled: the install succeeds
\* (the worker is installed, waiting) or fails (the worker is redundant).
InstallSettled(pc) == IF pc = "resolved" THEN "installed" ELSE "redundant"

InstallFinish ==
  /\ wstate = "installing"
  /\ installPc \in {"resolved", "rejected"}
  /\ wstate' = InstallSettled(installPc)
  /\ installPc' = "done"
  /\ UNCHANGED <<script, backgroundVars, active, skipFlag, activatePc, toDelete, claimed, now>>
  /\ UNCHANGED <<storeVars, eventVars>>

(***************************************************************************)
(* Activate.                                                               *)
(***************************************************************************)
\* The platform activates the waiting worker once its skip-waiting flag is
\* set; service-worker.js's listener starts caches.keys().
SvcActivate ==
  /\ script = SVC /\ wstate = "installed" /\ skipFlag
  /\ wstate' = "activating"
  /\ active' = "new"
  /\ activatePc' = "keys"
  /\ UNCHANGED <<script, backgroundVars, skipFlag, installPc, toDelete, claimed, now>>
  /\ UNCHANGED <<storeVars, eventVars>>

\* sw.js's listener starts caches.keys() and calls self.clients.claim()
\* at once.
SwActivate ==
  /\ script = SWJ /\ wstate = "installed" /\ skipFlag
  /\ wstate' = "activating"
  /\ active' = "new"
  /\ activatePc' = "keys"
  /\ claimed' = TRUE
  /\ UNCHANGED <<script, backgroundVars, skipFlag, installPc, toDelete, now>>
  /\ UNCHANGED <<storeVars, eventVars>>

\* The names the activate handler deletes, of those caches.keys() gave.
Stale(s, cacheNames) ==
  IF s = SVC
    THEN {n \in cacheNames : n # SVC_CACHE_NAME}
    ELSE {n \in cacheNames : n # STATIC_CACHE_NAME /\ n # DYNAMIC_CACHE_NAME}

\* caches.keys() resolves: one caches.delete per stale name is started.
ActivateKeys ==
  /\ activatePc = "keys"
  /\ toDelete' = Stale(script, CachesKeys)
  /\ activatePc' = "deleting"
  /\ UNCHANGED <<script, backgroundVars, wstate, active, skipFlag, installPc, claimed, now>>
  /\ UNCHANGED <<storeVars, eventVars>>

\* One of the pending caches.delete(cacheName) calls completes.
ActivateDelete ==
  /\ activatePc = "deleting"
  /\ \E n \in toDelete :
       /\ names' = DeleteName(n)
       /\ toDelete' = toDelete \ {n}
  /\ UNCHANGED <<script, backgroundVars, wstate, active, skipFlag, installPc, activatePc, claimed, now>>
  /\ UNCHANGED <<objs, eventVars>>

\* Promise.all resolves; service-worker.js goes on to
\* .then(() => self.clients.claim()).
SvcActivateClaim ==
  /\ script = SVC /\ activatePc = "deleting" /\ toDelete = {}
  /\ claimed' = TRUE
  /\ activatePc' = "resolved"
  /\ UNCHANGED <<script, backgroundVars, wstate, active, skipFlag, installPc, toDelete, now>>
  /\ UNCHANGED <<storeVars, eventVars>>

\* Promise.all resolves, and with it sw.js's waitUntil promise.
SwActivateCleaned ==
  /\ script = SWJ /\ activatePc = "deleting" /\ toDelete = {}
  /\ activatePc' = "resolved"
  /\ UNCHANGED <<script, backgroundVars, wstate, active, skipFlag, installPc, toDelete, claimed, now>>
  /\ UNCHANGED <<storeVars, eventVars>>

\* The waitUntil promise of the activate event has settled.
ActivateFinish ==
  /\ wstate = "activating" /\ activatePc = "resolved"
  /\ wstate' = "activated"
  /\ activatePc' = "done"
  /\ UNCHANGED <<script, backgroundVars, active, skipFlag, installPc, toDelete, claimed, now>>
  /\ UNCHANGED <<storeVars, eventVars>>

(***************************************************************************)
(* Fetch events.  A fetch record keeps the request, whether the listener   *)
(* called respondWith, the branch it took, where the promise given to      *)
(* respondWith stands (pc), the answer the page got, and the detached      *)
(* work the listener left behind (task): the cache write of the response   *)
(* copy and, in sw.js, the background refresh.                             *)
(***************************************************************************)
Events == Len(fetches) + Len(saves) + Len(drains) + Len(markets) + Len(sweeps)

\* The requests pages make.
ReqUrls == {U_index, U_icon, U_fa, U_api, U_ticker}
Requests == {Request(u, "GET") : u \in ReqUrls} \cup {Request(U_api, "POST")}

NewFetch(req, intercepted, branch, pc) ==
  [req |-> req, intercepted |-> intercepted, branch |-> branch, pc |-> pc,
   netFailed |-> FALSE, answer |-> Undefined, source |-> "none",
   task |-> "none", taskCache |-> "none", taskResp |-> Undefined]

\* service-worker.js: url.pathname.includes('/api/') ||
\*                    url.hostname === 'fapi.binance.com'
SvcIsApi(u) == PathIncludesApi(u) \/ u.host = <<"fapi", "binance", "com">>

\* sw.js: url.hostname.includes('binance.com') ||
\*        url.hostname.includes('binance.me')
SwIsApi(u) ==
  Includes(u.host, <<"binance", "com">>) \/ Includes(u.host, <<"binance", "me">>)

\* service-worker.js: the branch the fetch listener takes; it calls
\* respondWith on both.
SvcRoute(req) ==
  IF SvcIsApi(req.url)
    THEN NewFetch(req, TRUE, "network-first", "net")
    ELSE NewFetch(req, TRUE, "cache-first", "match")

\* sw.js: the listener returns at once for a non-GET request, and the
\* browser fetches it itself.
SwRoute(req) ==
  IF req.method # "GET" THEN NewFetch(req, FALSE, "none", "pass")
  ELSE IF SwIsApi(req.url) THEN NewFetch(req, TRUE, "network-first", "net")
  ELSE NewFetch(req, TRUE, "cache-first", "match")

\* A fetch event is dispatched to the activated worker.
SvcFetch ==
  /\ script = SVC /\ wstate = "activated" /\ Events < MaxEvents
  /\ \E req \in Requests : fetches' = Append(fetches, SvcRoute(req))
  /\ UNCHANGED <<script, backgroundVars, lifecycleVars, active, storeVars, now, saves, drains, outbox>>

SwFetch ==
  /\ script = SWJ /\ wstate = "activated" /\ Events < MaxEvents
  /\ \E req \in Requests : fetches' = Append(fetches, SwRoute(req))
  /\ UNCHANGED <<script, backgroundVars, lifecycleVars, active, storeVars, now, saves, drains, outbox>>

\* The browser's own fetch of a request the listener did not intercept.
FetchPassThrough ==
  /\ \E i \in 1..Len(fetches) :
       /\ fetches[i].pc = "pass"
       /\ \E r \in NetResponses(fetches[i].req.url) \cup {NetworkError} :
            fetches' = [fetches EXCEPT ![i].pc = "done", ![i].answer = r,
                                       ![i].source = "network",
                                       ![i].netFailed = (r = NetworkError)]
  /\ UNCHANGED <<script, backgroundVars, lifecycleVars, active, storeVars, now, saves, drains, outbox>>

\* service-worker.js, network-first: fetch(event.request) resolves; a 200
\* response is cloned for a detached caches.open(CACHE_NAME) + put, and the
\* response is returned.
SvcCaches(r) == r.status = 200

SvcNetworkFirst(f, r) ==
  IF SvcCaches(r)
    THEN [f EXCEPT !.pc = "done", !.answer = r, !.source = "network",
                   !.task = "open", !.taskCache = SVC_CACHE_NAME, !.taskResp = r]
    ELSE [f EXCEPT !.pc = "done", !.answer = r, !.source = "network"]

SvcFetchNetwork ==
  /\ script = SVC
  /\ \E i \in 1..Len(fetches) :
       /\ fetches[i].pc = "net"
       /\ \E r \in NetResponses(fetches[i].req.url) :
            fetches' = [fetches EXCEPT ![i] = SvcNetworkFirst(fetches[i], r)]
  /\ UNCHANGED <<script, backgroundVars, lifecycleVars, active, storeVars, now, saves, drains, outbox>>

\* sw.js, network-first: the same with response.ok and DYNAMIC_CACHE_NAME.
SwCaches(r) == Ok(r)

SwNetworkFirst(f, r) ==
  IF SwCaches(r)
    THEN [f EXCEPT !.pc = "done", !.answer = r, !.source = "network",
                   !.task = "open", !.taskCache = DYNAMIC_CACHE_NAME, !.taskResp = r]
    ELSE [f EXCEPT !.pc = "done", !.answer = r, !.source = "network"]

\* A response of the API host that exposes its Date header to scripts.
Exposed(u) == {Dated(Response(200, "cors", "b1"), now)}

SwFetchNetwork ==
  /\ script = SWJ
  /\ \E i \in 1..Len(fetches) :
       /\ fetches[i].pc = "net"
       /\ \E r \in NetResponses(fetches[i].req.url) \cup Exposed(fetches[i].req.url) :
            fetches' = [fetches EXCEPT ![i] = SwNetworkFirst(fetches[i], r)]
  /\ UNCHANGED <<script, backgroundVars, lifecycleVars, active, storeVars, now, saves, drains, outbox>>

\* Network-first: fetch(event.request) rejects; .catch starts
\* caches.match(event.request).
FetchNetworkFails ==
  /\ \E i \in 1..Len(fetches) :
       /\ fetches[i].pc = "net"
       /\ fetches' = [fetches EXCEPT ![i].pc = "fallback", ![i].netFailed = TRUE]
  /\ UNCHANGED <<script, backgroundVars, lifecycleVars, active, storeVars, now, saves, drains, outbox>>

\* A faulty variant: the .catch callback does not return the lookup.
FallbackDropsMatch(f) ==
  [f EXCEPT !.pc = "done", !.answer = Undefined, !.source = "cache"]

\* .catch(() => caches.match(event.request)): what the handler answers
\* once the lookup resolves (undefined when nothing matches).
Fallback(f) ==
  [f EXCEPT !.pc = "done", !.answer = CachesMatch(f.req), !.source = "cache"]

FetchFallback ==
  /\ \E i \in 1..Len(fetches) :
       /\ fetches[i].pc = "fallback"
       /\ fetches' = [fetches EXCEPT ![i] = Fallback(fetches[i])]
  /\ UNCHANGED <<script, backgroundVars, lifecycleVars, active, storeVars, now, saves, drains, outbox>>

\* service-worker.js, cache-first: caches.match(event.request) resolves;
\* response || fetch(event.request).
SvcCacheFirst(f) ==
  IF CachesMatch(f.req) # Undefined
    THEN [f EXCEPT !.pc = "done", !.answer = CachesMatch(f.req), !.source = "cache"]
    ELSE [f EXCEPT !.pc = "miss"]

SvcFetchCacheFirst ==
  /\ script = SVC
  /\ \E i \in 1..Len(fetches) :
       /\ fetches[i].pc = "match"
       /\ fetches' = [fetches EXCEPT ![i] = SvcCacheFirst(fetches[i])]
  /\ UNCHANGED <<script, backgroundVars, lifecycleVars, active, storeVars, now, saves, drains, outbox>>

\* service-worker.js, cache-first miss: the fetch settles and is the answer.
SvcFetchMiss ==
  /\ script = SVC
  /\ \E i \in 1..Len(fetches) :
       /\ fetches[i].pc = "miss"
       /\ \E r \in NetResponses(fetches[i].req.url) \cup {NetworkError} :
            fetches' = [fetches EXCEPT ![i].pc = "done", ![i].answer = r,
                                       ![i].source = "network",
                                       ![i].netFailed = (r = NetworkError)]
  /\ UNCHANGED <<script, backgroundVars, lifecycleVars, active, storeVars, now, saves, drains, outbox>>

\* sw.js, cache-first: caches.match(event.request) resolves.  On a hit the
\* listener starts the background fetch and returns the cached response.
SwCacheFirst(f) ==
  IF CachesMatch(f.req) # Undefined
    THEN [f EXCEPT !.pc = "done", !.answer = CachesMatch(f.req), !.source = "cache",
                   !.task = "refresh"]
    ELSE [f EXCEPT !.pc = "miss"]

SwFetchCacheFirst ==
  /\ script = SWJ
  /\ \E i \in 1..Len(fetches) :
       /\ fetches[i].pc = "match"
       /\ fetches' = [fetches EXCEPT ![i] = SwCacheFirst(fetches[i])]
  /\ UNCHANGED <<script, backgroundVars, lifecycleVars, active, storeVars, now, saves, drains, outbox>>

\* A faulty variant: the refresh is written to the dynamic cache.
SwRefreshedIntoDynamic(f, r) ==
  IF r # NetworkError /\ Ok(r)
    THEN [f EXCEPT !.task = "open", !.taskCache = DYNAMIC_CACHE_NAME, !.taskResp = r]
    ELSE [f EXCEPT !.task = IF r = NetworkError THEN "failed" ELSE "skipped",
                   !.taskResp = r]

\* sw.js, background refresh: the fetch settles; an ok response is cloned
\* for caches.open(STATIC_CACHE_NAME) + put.
SwRefreshed(f, r) ==
  IF r # NetworkError /\ Ok(r)
    THEN [f EXCEPT !.task = "open", !.taskCache = STATIC_CACHE_NAME, !.taskResp = r]
    ELSE [f EXCEPT !.task = IF r = NetworkError THEN "failed" ELSE "skipped",
                   !.taskResp = r]

SwFetchRefresh ==
  /\ script = SWJ
  /\ \E i \in 1..Len(fetches) :
       /\ fetches[i].task = "refresh"
       /\ \E r \in NetResponses(fetches[i].req.url) \cup {NetworkError} :
            fetches' = [fetches EXCEPT ![i] = SwRefreshed(fetches[i], r)]
  /\ UNCHANGED <<script, backgroundVars, lifecycleVars, active, storeVars, now, saves, drains, outbox>>

\* sw.js, cache-first miss: the fetch settles.  Only a 200 'basic' response
\* is cloned for caches.open(STATIC_CACHE_NAME) + put.
SwQualifies(r) == r.status = 200 /\ r.type = "basic"

SwMissed(f, r) ==
  IF r = NetworkError
    THEN [f EXCEPT !.pc = "done", !.answer = r, !.source = "network", !.netFailed = TRUE]
  ELSE IF SwQualifies(r)
    THEN [f EXCEPT !.pc = "done", !.answer = r, !.source = "network",
                   !.task = "open", !.taskCache = STATIC_CACHE_NAME, !.taskResp = r]
  ELSE [f EXCEPT !.pc = "done", !.answer = r, !.source = "network"]

SwFetchMiss ==
  /\ script = SWJ
  /\ \E i \in 1..Len(fetches) :
       /\ fetches[i].pc = "miss"
       /\ \E r \in NetResponses(fetches[i].req.url) \cup {NetworkError} :
            fetches' = [fetches EXCEPT ![i] = SwMissed(fetches[i], r)]
  /\ UNCHANGED <<script, backgroundVars, lifecycleVars, active, storeVars, now, saves, drains, outbox>>

\* The detached caches.open(name).then(cache => cache.put(event.request,
\* copy)) of a fetch listener runs: the cache is created if absent, and
\* the put stores the copy or rejects.
FetchTaskStore ==
  /\ \E i \in 1..Len(fetches) :
       LET f == fetches[i]
           h == OpenHandle(f.taskCache) IN
       /\ f.task = "open"
       /\ names' = OpenNames(f.taskCache)
       /\ objs' = [OpenObjs(f.taskCache) EXCEPT ![h] = CachePut(@, f.req, f.taskResp)]
       /\ fetches' = [fetches EXCEPT ![i].task =
                        IF PutRejects(f.req, f.taskResp) THEN "rejected" ELSE "stored"]
  /\ UNCHANGED <<script, backgroundVars, lifecycleVars, active, now, saves, drains, outbox>>

FetchActions ==
  \/ SvcFetch \/ SwFetch \/ FetchPassThrough
  \/ SvcFetchNetwork \/ SwFetchNetwork \/ FetchNetworkFails \/ FetchFallback
  \/ SvcFetchCacheFirst \/ SvcFetchMiss
  \/ SwFetchCacheFirst \/ SwFetchRefresh \/ SwFetchMiss
  \/ FetchTaskStore

(***************************************************************************)
(* Messages from the page and the offline queue (service-worker.js).       *)
(* A page can post a message to the worker in any live lifecycle state.    *)
(***************************************************************************)
Live == wstate \in {"installing", "installed", "activating", "activated"}

\* `/api/offline/${timestamp}`
OfflineUrl(timestamp) == Url(Origin, <<"api", "offline", Str(timestamp)>>)

Message(type, a, b) == [type |-> type, a |-> a, b |-> b, to |-> claimed]

\* message SAVE_OFFLINE_DATA: saveOfflineData(event.data.data) starts
\* caches.open('offline-data').
SaveOfflineData ==
  /\ script = SVC /\ Live /\ Events < MaxEvents
  /\ saves' = Append(saves, [pc |-> "open", cache |-> 0, timestamp |-> 0,
                             data |-> SaveBody(Len(saves) + 1)])
  /\ UNCHANGED <<script, backgroundVars, lifecycleVars, active, storeVars, now, fetches, drains, outbox>>

\* caches.open resolves; the call reads Date.now() (which never runs
\* backwards), builds the request and starts cache.put.
SaveOpen ==
  /\ \E i \in 1..Len(saves) :
       /\ saves[i].pc = "open"
       /\ \E t \in now..MaxClock :
            /\ now' = t
            /\ saves' = [saves EXCEPT ![i].pc = "put", ![i].timestamp = t,
                                      ![i].cache = OpenHandle(OFFLINE_DATA)]
       /\ names' = OpenNames(OFFLINE_DATA)
       /\ objs' = OpenObjs(OFFLINE_DATA)
  /\ UNCHANGED <<script, backgroundVars, lifecycleVars, active, fetches, drains, outbox>>

\* The key saveOfflineData stores a trade under.
SaveKey(sv) == OfflineUrl(sv.timestamp)

\* await cache.put(request, response) resolves; clients.matchAll() starts.
SavePut ==
  /\ \E i \in 1..Len(saves) :
       LET sv == saves[i] IN
       /\ sv.pc = "put"
       /\ objs' = [objs EXCEPT ![sv.cache] =
                     CachePut(@, Request(SaveKey(sv), "GET"),
                              Response(200, "default", sv.data))]
       /\ saves' = [saves EXCEPT ![i].pc = "notify"]
  /\ UNCHANGED <<script, backgroundVars, lifecycleVars, active, names, now, fetches, drains, outbox>>

\* clients.matchAll() resolves: OFFLINE_DATA_SAVED {id: timestamp}.
SaveNotify ==
  /\ \E i \in 1..Len(saves) :
       /\ saves[i].pc = "notify"
       /\ outbox' = Append(outbox, Message("OFFLINE_DATA_SAVED", saves[i].timestamp, 0))
       /\ saves' = [saves EXCEPT ![i].pc = "done"]
  /\ UNCHANGED <<script, backgroundVars, lifecycleVars, active, storeVars, now, fetches, drains>>

(***************************************************************************)
(* syncOfflineTrades (service-worker.js), started by the 'offline-trades'  *)
(* sync event or by a SYNC_NOW message.                                    *)
(***************************************************************************)
\* Beside the call's own variables a drain record notes how the call
\* started: whether the worker was activated and every earlier
\* saveOfflineData and syncOfflineTrades call had finished (alone), and how
\* many saves there had been.
Finished == /\ \A i \in 1..Len(saves) : saves[i].pc = "done"
            /\ \A d \in 1..Len(drains) : drains[d].pc \in {"done", "failed"}

NewDrain(trigger) ==
  [trigger |-> trigger, pc |-> "open", cache |-> 0, keys |-> <<>>, entries |-> <<>>,
   alone |-> (wstate = "activated" /\ Finished), savesBefore |-> Len(saves)]

\* sync event, tag 'offline-trades': dispatched to the activated worker.
SyncEvent ==
  /\ script = SVC /\ wstate = "activated" /\ Events < MaxEvents
  /\ drains' = Append(drains, NewDrain("sync"))
  /\ UNCHANGED <<script, backgroundVars, lifecycleVars, active, storeVars, now, fetches, saves, outbox>>

\* message SYNC_NOW
SyncNow ==
  /\ script = SVC /\ Live /\ Events < MaxEvents
  /\ drains' = Append(drains, NewDrain("message"))
  /\ UNCHANGED <<script, backgroundVars, lifecycleVars, active, storeVars, now, fetches, saves, outbox>>

\* What becomes of the promise syncOfflineTrades() returns: the sync
\* listener hands it to event.waitUntil, the message listener drops it.
PromiseSink(trigger) == IF trigger = "sync" THEN "waitUntil" ELSE "dropped"

\* await caches.open('offline-data') resolves; cache.keys() starts.
DrainOpen ==
  /\ \E d \in 1..Len(drains) :
       /\ drains[d].pc = "open"
       /\ drains' = [drains EXCEPT ![d].pc = "keys",
                                   ![d].cache = OpenHandle(OFFLINE_DATA)]
       /\ names' = OpenNames(OFFLINE_DATA)
       /\ objs' = OpenObjs(OFFLINE_DATA)
  /\ UNCHANGED <<script, backgroundVars, lifecycleVars, active, now, fetches, saves, outbox>>

\* keys.filter(key => key.url.includes('/api/trades'))
TradeRequests(keys) == SelectSeq(keys, UrlIncludesApiTrades)

\* await cache.keys() resolves: the snapshot is filtered and one async
\* function per trade request starts (its cache.match is pending).
DrainKeys ==
  /\ \E d \in 1..Len(drains) :
       LET keys == CacheKeys(objs[drains[d].cache])
           tr == TradeRequests(keys) IN
       /\ drains[d].pc = "keys"
       /\ drains' = [drains EXCEPT
            ![d].pc = "entries",
            ![d].keys = keys,
            ![d].entries = [k \in 1..Len(tr) |->
                              [request |-> tr[k], st |-> "match", data |-> "none",
                               sent |-> FALSE, ok |-> FALSE]]]
  /\ UNCHANGED <<script, backgroundVars, lifecycleVars, active, storeVars, now, fetches, saves, outbox>>

\* await caches.open('offline-data') or await cache.keys() rejects (the
\* store cannot be opened or read): the catch block starts
\* clients.matchAll() and rethrows, so the call's promise rejects.
Caught(dr) == [dr EXCEPT !.pc = "rejected"]

DrainStoreFails ==
  /\ \E d \in 1..Len(drains) :
       /\ drains[d].pc \in {"open", "keys"}
       /\ drains' = [drains EXCEPT ![d] = Caught(@)]
  /\ UNCHANGED <<script, backgroundVars, lifecycleVars, active, storeVars, now, fetches, saves, outbox>>

\* clients.matchAll() of the catch block resolves: SYNC_FAILED {error}.
Failure(dr) == Message("SYNC_FAILED", 0, 0)

DrainNotifyFailed ==
  /\ \E d \in 1..Len(drains) :
       /\ drains[d].pc = "rejected"
       /\ outbox' = Append(outbox, Failure(drains[d]))
       /\ drains' = [drains EXCEPT ![d].pc = "failed"]
  /\ UNCHANGED <<script, backgroundVars, lifecycleVars, active, storeVars, now, fetches, saves>>

\* await cache.match(request) resolves; response.json() throws when the
\* pair is gone, otherwise the POST to /api/trades/sync starts.
Matched(e, resp) ==
  IF resp = Undefined
    THEN [e EXCEPT !.st = "rejected"]
    ELSE [e EXCEPT !.st = "post", !.data = resp.body, !.sent = TRUE]

EntryMatch ==
  /\ \E d \in 1..Len(drains) : \E k \in 1..Len(drains[d].entries) :
       LET e == drains[d].entries[k] IN
       /\ e.st = "match"
       /\ drains' = [drains EXCEPT ![d].entries[k] =
            Matched(e, CacheMatch(objs[drains[d].cache], Request(e.request, "GET")))]
  /\ UNCHANGED <<script, backgroundVars, lifecycleVars, active, storeVars, now, fetches, saves, outbox>>

\* The POST settles.  serverResponse.ok: cache.delete(request) starts;
\* a non-ok status throws, a network error rejects.
Posted(e, ok) ==
  IF ok THEN [e EXCEPT !.st = "delete", !.ok = TRUE]
        ELSE [e EXCEPT !.st = "rejected"]

EntryPost ==
  /\ \E d \in 1..Len(drains) : \E k \in 1..Len(drains[d].entries) :
       /\ drains[d].entries[k].st = "post"
       /\ \E ok \in BOOLEAN :
            drains' = [drains EXCEPT ![d].entries[k] = Posted(@, ok)]
  /\ UNCHANGED <<script, backgroundVars, lifecycleVars, active, storeVars, now, fetches, saves, outbox>>

\* await cache.delete(request) resolves: { success: true, data }.
EntryDelete ==
  /\ \E d \in 1..Len(drains) : \E k \in 1..Len(drains[d].entries) :
       LET e == drains[d].entries[k] IN
       /\ e.st = "delete"
       /\ objs' = [objs EXCEPT ![drains[d].cache] = CacheDelete(@, e.request)]
       /\ drains' = [drains EXCEPT ![d].entries[k].st = "fulfilled"]
  /\ UNCHANGED <<script, backgroundVars, lifecycleVars, active, names, now, fetches, saves, outbox>>

Settled(dr) ==
  \A k \in 1..Len(dr.entries) : dr.entries[k].st \in {"fulfilled", "rejected"}

\* results.filter(r => r.status === 'fulfilled').length
SuccessCount(dr) ==
  Cardinality({k \in 1..Len(dr.entries) : dr.entries[k].st = "fulfilled"})

\* A faulty variant: a drain that found nothing to send reports a failure.
SummaryFailsWhenEmpty(dr) ==
  IF Len(dr.entries) = 0 THEN Message("SYNC_FAILED", 0, 0)
  ELSE Message("SYNC_COMPLETED", SuccessCount(dr), Len(dr.entries))

\* Promise.allSettled resolves, then clients.matchAll():
\* SYNC_COMPLETED {synced: successCount, total: tradeRequests.length}.
Summary(dr) == Message("SYNC_COMPLETED", SuccessCount(dr), Len(dr.entries))

DrainNotify ==
  /\ \E d \in 1..Len(drains) :
       /\ drains[d].pc = "entries"
       /\ Settled(drains[d])
       /\ outbox' = Append(outbox, Summary(drains[d]))
       /\ drains' = [drains EXCEPT ![d].pc = "done"]
  /\ UNCHANGED <<script, backgroundVars, lifecycleVars, active, storeVars, now, fetches, saves>>

QueueActions ==
  \/ SaveOfflineData \/ SaveOpen \/ SavePut \/ SaveNotify
  \/ SyncEvent \/ SyncNow \/ DrainOpen \/ DrainKeys
  \/ DrainStoreFails \/ DrainNotifyFailed
  \/ EntryMatch \/ EntryPost \/ EntryDelete \/ DrainNotify

(***************************************************************************)
(* syncMarketData (service-worker.js), started by the periodicsync event   *)
(* with tag 'market-data-sync'.                                            *)
(***************************************************************************)
\* periodicsync event: dispatched to the activated worker;
\* fetch('https://fapi.binance.com/fapi/v1/ticker/24hr') starts.
PeriodicSync ==
  /\ script = SVC /\ wstate = "activated" /\ Events < MaxEvents
  /\ markets' = Append(markets, [pc |-> "fetch", resp |-> Undefined,
                                  data |-> "none", cache |-> 0])
  /\ UNCHANGED <<script, lifecycleVars, active, storeVars, now, eventVars, sweeps>>

\* await fetch(...) settles: a rejection goes to the catch block; any
\* response, whatever its status, goes on to response.json().
MarketFetched(m, r) ==
  IF r = NetworkError THEN [m EXCEPT !.pc = "caught"]
  ELSE [m EXCEPT !.pc = "json", !.resp = r]

MarketFetch ==
  /\ \E i \in 1..Len(markets) :
       /\ markets[i].pc = "fetch"
       /\ \E r \in NetResponses(U_ticker) \cup {NetworkError} :
            markets' = [markets EXCEPT ![i] = MarketFetched(@, r)]
  /\ UNCHANGED <<script, lifecycleVars, active, storeVars, now, eventVars, sweeps>>

\* await response.json() settles: it rejects when the body is not a JSON
\* text (always so for the empty body of an opaque response); otherwise the
\* parsed value is kept and caches.open(CACHE_NAME) starts.
MarketParsed(m, isJson) ==
  IF isJson /\ m.resp.type # "opaque"
    THEN [m EXCEPT !.pc = "open", !.data = m.resp.body]
    ELSE [m EXCEPT !.pc = "caught"]

MarketJson ==
  /\ \E i \in 1..Len(markets) :
       /\ markets[i].pc = "json"
       /\ \E isJson \in BOOLEAN :
            markets' = [markets EXCEPT ![i] = MarketParsed(@, isJson)]
  /\ UNCHANGED <<script, lifecycleVars, active, storeVars, now, eventVars, sweeps>>

\* await caches.open(CACHE_NAME) resolves; cache.put starts.
MarketOpen ==
  /\ \E i \in 1..Len(markets) :
       /\ markets[i].pc = "open"
       /\ markets' = [markets EXCEPT ![i].pc = "put",
                                     ![i].cache = OpenHandle(SVC_CACHE_NAME)]
       /\ names' = OpenNames(SVC_CACHE_NAME)
       /\ objs' = OpenObjs(SVC_CACHE_NAME)
  /\ UNCHANGED <<script, lifecycleVars, active, now, eventVars, sweeps>>

\* new Response(JSON.stringify(data)): status 200, no header of the
\* response that was fetched.
MarketCopy(m) == Response(200, "default", m.data)

\* await cache.put(new Request(url), new Response(...)) resolves.
MarketPut ==
  /\ \E i \in 1..Len(markets) :
       LET m == markets[i] IN
       /\ m.pc = "put"
       /\ objs' = [objs EXCEPT ![m.cache] =
                     CachePut(@, Request(U_ticker, "GET"), MarketCopy(m))]
       /\ markets' = [markets EXCEPT ![i].pc = "done"]
  /\ UNCHANGED <<script, lifecycleVars, active, names, now, eventVars, sweeps>>

MarketActions ==
  PeriodicSync \/ MarketFetch \/ MarketJson \/ MarketOpen \/ MarketPut

(***************************************************************************)
(* cleanupOldCache (sw.js), run by setInterval every hour while the worker *)
(* is alive.  The clock counts in units of maxAge (30 minutes).            *)
(***************************************************************************)
\* const maxAge = 30 * 60 * 1000
MAX_AGE == 1

\* url.hostname.includes('binance.com')
SweepCleans(u) == Includes(u.host, <<"binance", "com">>)

\* The for loop runs on, without suspending, to the next request it cleans.
RECURSIVE NextCleaned(_, _)
NextCleaned(requests, i) ==
  IF i > Len(requests) \/ SweepCleans(requests[i]) THEN i
  ELSE NextCleaned(requests, i + 1)

Advance(sw, i) ==
  LET j == NextCleaned(sw.requests, i)
  IN [sw EXCEPT !.i = j, !.pc = IF j > Len(sw.requests) THEN "done" ELSE "match"]

\* The timer fires: caches.open(DYNAMIC_CACHE_NAME) starts.
SweepStart ==
  /\ script = SWJ /\ Live /\ Events < MaxEvents
  /\ sweeps' = Append(sweeps, [pc |-> "open", cache |-> 0, requests |-> <<>>,
                                i |-> 0, time |-> 0])
  /\ UNCHANGED <<script, lifecycleVars, active, storeVars, now, eventVars, markets>>

\* await caches.open(DYNAMIC_CACHE_NAME) resolves; cache.keys() starts.
SweepOpen ==
  /\ \E k \in 1..Len(sweeps) :
       /\ sweeps[k].pc = "open"
       /\ sweeps' = [sweeps EXCEPT ![k].pc = "keys",
                                   ![k].cache = OpenHandle(DYNAMIC_CACHE_NAME)]
       /\ names' = OpenNames(DYNAMIC_CACHE_NAME)
       /\ objs' = OpenObjs(DYNAMIC_CACHE_NAME)
  /\ UNCHANGED <<script, lifecycleVars, active, now, eventVars, markets>>

\* await cache.keys() resolves; the run reads Date.now() and enters the loop.
SweepKeys ==
  /\ \E k \in 1..Len(sweeps) :
       /\ sweeps[k].pc = "keys"
       /\ \E t \in now..MaxClock :
            /\ now' = t
            /\ sweeps' = [sweeps EXCEPT ![k] =
                 Advance([sweeps[k] EXCEPT
                            !.requests = CacheKeys(objs[sweeps[k].cache]),
                            !.time = t], 1)]
  /\ UNCHANGED <<script, lifecycleVars, active, storeVars, eventVars, markets>>

\* if (response) { if (dateHeader) { if (now - fetchedDate > maxAge)
Expired(r, time) == r # Undefined /\ r.date # NoDate /\ time - r.date > MAX_AGE

\* await cache.match(request) resolves: cache.delete(request) starts for
\* an expired response, otherwise the loop goes on.
SweepMatched(sw, r) ==
  IF Expired(r, sw.time) THEN [sw EXCEPT !.pc = "delete"] ELSE Advance(sw, sw.i + 1)

SweepMatch ==
  /\ \E k \in 1..Len(sweeps) :
       LET sw == sweeps[k] IN
       /\ sw.pc = "match"
       /\ sweeps' = [sweeps EXCEPT ![k] =
            SweepMatched(sw, CacheMatch(objs[sw.cache], Request(sw.requests[sw.i], "GET")))]
  /\ UNCHANGED <<script, lifecycleVars, active, storeVars, now, eventVars, markets>>

\* await cache.delete(request) resolves; the loop goes on.
SweepDelete ==
  /\ \E k \in 1..Len(sweeps) :
       LET sw == sweeps[k] IN
       /\ sw.pc = "delete"
       /\ objs' = [objs EXCEPT ![sw.cache] = CacheDelete(@, sw.requests[sw.i])]
       /\ sweeps' = [sweeps EXCEPT ![k] = Advance(sw, sw.i + 1)]
  /\ UNCHANGED <<script, lifecycleVars, active, names, now, eventVars, markets>>

SweepActions == SweepStart \/ SweepOpen \/ SweepKeys \/ SweepMatch \/ SweepDelete

Lifecycle ==
  \/ SvcInstall \/ SwInstall \/ InstallOpen \/ SvcInstallAddAll
  \/ SvcInstallSkipWaiting \/ SwInstallAddAll \/ InstallFinish
  \/ SvcActivate \/ SwActivate \/ ActivateKeys \/ ActivateDelete
  \/ SvcActivateClaim \/ SwActivateCleaned \/ ActivateFinish

Next == Lifecycle \/ FetchActions \/ QueueActions \/ MarketActions \/ SweepActions

Spec == Init /\ [][Next]_vars

\* The worker with its lifecycle and fetch events only: the page posts no
\* message and no sync event fires.  The fetch listeners read and write
\* only the precache / static / dynamic caches and never 'offline-data'.
NextFetch == Lifecycle \/ FetchActions

SpecFetch == Init /\ [][NextFetch]_vars

\* The worker with its lifecycle, the page's messages and the sync events,
\* and no fetch event.  The queue code reads and writes only 'offline-data',
\* which no fetch listener touches.
NextQueue == Lifecycle \/ QueueActions

SpecQueue == Init /\ [][NextQueue]_vars

\* The same with the scheduling the platform guarantees: a callback whose
\* promise has settled runs, a CacheStorage operation completes, and the
\* lifecycle moves on.  Nothing makes a fetch() of the network settle: the
\* handlers set no timeout and pass no abort signal, so the steps in which
\* the network answers or fails are not fair.
FairFetch ==
  /\ WF_vars(InstallOpen) /\ WF_vars(SvcInstallSkipWaiting) /\ WF_vars(InstallFinish)
  /\ WF_vars(SvcActivate) /\ WF_vars(SwActivate)
  /\ WF_vars(ActivateKeys) /\ WF_vars(ActivateDelete)
  /\ WF_vars(SvcActivateClaim) /\ WF_vars(SwActivateCleaned) /\ WF_vars(ActivateFinish)
  /\ WF_vars(FetchFallback) /\ WF_vars(FetchTaskStore)
  /\ WF_vars(SvcFetchCacheFirst) /\ WF_vars(SwFetchCacheFirst)

SpecFetchLive == Init /\ [][NextFetch]_vars /\ FairFetch


(***************************************************************************)
(* The claims.                                                             *)
(***************************************************************************)
Range(q) == {q[i] : i \in 1..Len(q)}

\* The keys saveOfflineData has queued trades under and that are in
\* 'offline-data'.
IsOfflineKey(u) == Len(u.path) = 3 /\ u.path[1] = "api" /\ u.path[2] = "offline"
QueuedKeys == {u \in Range(CacheKeys(ItemsOf(OFFLINE_DATA))) : IsOfflineKey(u)}

\* The server has answered ok to a POST of the trade under this key.
Acknowledged(u) ==
  \E d \in 1..Len(drains) : \E k \in 1..Len(drains[d].entries) :
    drains[d].entries[k].request = u /\ drains[d].entries[k].ok

\* C1: a trade queued by saveOfflineData leaves 'offline-data' (its key is
\* no longer there) only once the server has acknowledged it with an ok
\* response; no other handler removes a queued trade.
C1_LeavesOnlyWhenAcknowledged ==
  [][\A u \in QueuedKeys : u \notin QueuedKeys' => Acknowledged(u)']_vars

\* C2: every trade saveOfflineData has queued and that is in the queue when
\* a drain takes its snapshot (cache.keys()) is one of the drain's trade
\* requests.
C2_SnapshotHoldsQueuedTrades ==
  \A d \in 1..Len(drains) :
    drains[d].pc \in {"entries", "done"} =>
      \A u \in Range(drains[d].keys) :
        IsOfflineKey(u) =>
          \E k \in 1..Len(drains[d].entries) : drains[d].entries[k].request = u

\* A drain that ran alone on an activated worker: nothing else was in
\* flight when it started and no trade was enqueued since.
RanAlone(d) ==
  /\ Len(drains) = 1
  /\ drains[d].pc = "done"
  /\ drains[d].alone
  /\ Len(saves) = drains[d].savesBefore

RejectedRequests(dr) ==
  LET rej == SelectSeq(dr.entries, LAMBDA e : e.st = "rejected")
  IN [k \in 1..Len(rej) |-> rej[k].request]

AckedCount(dr) == Cardinality({k \in 1..Len(dr.entries) : dr.entries[k].ok})

\* C3: after a drain that ran alone, with n entries in its snapshot of which
\* the server acknowledged m, every entry was sent, the queue holds exactly
\* the n-m failed entries under their keys, and exactly one SYNC_COMPLETED
\* {synced: m, total: n} was posted.
C3_PartialFailureIsolation ==
  \A d \in 1..Len(drains) :
    RanAlone(d) =>
      /\ \A k \in 1..Len(drains[d].entries) : drains[d].entries[k].sent
      /\ CacheKeys(ItemsOf(OFFLINE_DATA)) = RejectedRequests(drains[d])
      /\ SelectSeq(outbox, LAMBDA m : m.type = "SYNC_COMPLETED")
           = <<[type |-> "SYNC_COMPLETED", a |-> AckedCount(drains[d]),
                b |-> Len(drains[d].entries), to |-> TRUE]>>

\* C4: with no drain in between, each saveOfflineData call is given an id
\* different from every earlier one, and once N calls have finished on an
\* activated worker the queue holds N entries, in call order.
Stamped(i) == saves[i].pc \in {"put", "notify", "done"}

C4_UniqueIdsInOrder ==
  Len(drains) = 0 =>
    /\ \A i, j \in 1..Len(saves) :
         i < j /\ Stamped(i) /\ Stamped(j) => saves[i].timestamp # saves[j].timestamp
    /\ (Finished /\ wstate = "activated" /\ activatePc = "done" /\ HasCache(OFFLINE_DATA)
        /\ \A i \in 1..Len(saves) : saves[i].cache = ObjOf(OFFLINE_DATA))
         => SelectSeq(CacheKeys(ItemsOf(OFFLINE_DATA)), IsOfflineKey)
              = [i \in 1..Len(saves) |-> SaveKey(saves[i])]

\* C5: when the activate handler's cleanup (Promise.all over the deletes)
\* finishes, every existing cache name is one of the current generation's.
C5_CleanupComplete ==
  [][(activatePc = "deleting" /\ activatePc' = "resolved")
       => NameSet' \subseteq CurrentNames(script)]_vars

\* The spec's classification rule: the host is one of the script's API hosts
\* or the path contains the API path segment.
ApiClass(u) ==
  \/ (IF script = SVC THEN u.host = <<"fapi", "binance", "com">> ELSE SwIsApi(u))
  \/ PathIncludesApi(u)

\* C6: an API-class request the worker answers from the cache is one whose
\* network fetch has failed; while the network answers, the answer is the
\* live response.
C6_ApiIsNetworkFirst ==
  \A i \in 1..Len(fetches) :
    LET f == fetches[i] IN
    (f.pc = "done" /\ ApiClass(f.req.url)) =>
      /\ f.source = "cache" => f.netFailed
      /\ ~f.netFailed => f.source = "network"

\* The responses stored for a url, in any cache.
CachedFor(u) ==
  {it.resp : it \in {x \in UNION {Range(objs[names[n].obj]) : n \in 1..Len(names)} :
                       x.url = u}}

\* C7: when the network fetch of a network-first GET request has failed and
\* some cache holds an entry for the request's url, the handler answers
\* with a cached entry of that url, not with an error.
C7_FallbackToCache ==
  [][\A i \in 1..Len(fetches) :
       (/\ fetches[i].pc = "fallback" /\ fetches'[i].pc = "done"
        /\ fetches[i].req.method = "GET"
        /\ CachedFor(fetches[i].req.url) # {})
         => /\ fetches'[i].answer \in CachedFor(fetches[i].req.url)
            /\ fetches'[i].answer \notin {Undefined, NetworkError}]_vars

W7_FallbackToCache ==
  \E i \in 1..Len(fetches) :
    LET f == fetches[i] IN
    /\ f.branch = "network-first" /\ f.req.method = "GET"
    /\ f.pc = "done" /\ f.netFailed /\ f.source = "cache"
    /\ f.answer \in CachedFor(f.req.url)

\* C8 (sw.js, cache-first): a request with a cached hit is answered with the
\* cached response while the background refresh is still to settle; a
\* refresh that brings a 200 response goes on to cache.put, and when that
\* put has run the static cache holds the refreshed response for the url.
C8_StaleWhileRevalidate ==
  [][\A i \in 1..Len(fetches) :
       LET f == fetches[i]
           g == fetches'[i] IN
       (script = SWJ /\ f.branch = "cache-first") =>
         /\ (f.pc = "match" /\ g.pc # "match" /\ CachedFor(f.req.url) # {})
              => /\ g.pc = "done" /\ g.task = "refresh"
                 /\ g.answer \in CachedFor(f.req.url)
         /\ (f.task = "refresh" /\ g.task # "refresh" /\ g.taskResp.status = 200)
              => g.task = "open"
         /\ (f.task = "open" /\ f.source = "cache" /\ g.task # "open"
             /\ f.taskResp.status = 200)
              => /\ g.task = "stored"
                 /\ FirstMatch(ItemsOf(STATIC_CACHE_NAME)', f.req.url) = f.taskResp]_vars

W8_StaleWhileRevalidate ==
  \E i \in 1..Len(fetches) :
    LET f == fetches[i] IN
    /\ script = SWJ /\ f.branch = "cache-first" /\ f.source = "cache"
    /\ f.task = "stored" /\ f.taskResp.body # f.answer.body
    /\ FirstMatch(ItemsOf(STATIC_CACHE_NAME), f.req.url) = f.taskResp

\* C9: a request with a non-GET method is never intercepted (respondWith is
\* not called for it) and never written to a cache.
C9_NonGetPassesThrough ==
  \A i \in 1..Len(fetches) :
    fetches[i].req.method # "GET" =>
      ~fetches[i].intercepted /\ fetches[i].task # "stored"

\* C10: install is all-or-nothing.  A worker that is installed, activating
\* or activated has every url of its manifest stored; a worker whose
\* install promise rejected is never the active one, stores nothing of the
\* manifest, and the old version stays active.
Precache == ItemsOf(PrecacheName(script))

C10_InstallAllOrNothing ==
  /\ wstate \in {"installed", "activating", "activated"}
       => \A u \in Manifest(script) : FirstMatch(Precache, u) # Undefined
  /\ active = "new" => wstate \in {"activating", "activated"}
  /\ (installPc = "rejected" \/ wstate = "redundant")
       => /\ active = "old"
          /\ wstate \in {"installing", "redundant"}
          /\ Precache = <<>>

W10_InstallAllOrNothing ==
  /\ script = SWJ /\ wstate = "redundant" /\ skipFlag
  /\ active = "old" /\ Precache = <<>>

\* C11: the worker claims the open pages (clients.claim) only once the
\* deletion of the stale caches has completed: at the step that claims, no
\* caches.delete is pending and no stale cache exists.
C11_ClaimAfterCleanup ==
  [][(~claimed /\ claimed') => (toDelete = {} /\ Stale(script, NameSet) = {})]_vars

CountOf(type) == Len(SelectSeq(outbox, LAMBDA m : m.type = type))
DrainsAt(pc) == {d \in 1..Len(drains) : drains[d].pc = pc}

\* C12: a drain that could not run because 'offline-data' could not be
\* opened or read broadcasts SYNC_FAILED and no SYNC_COMPLETED, and its
\* error reaches the caller of its trigger: the promise that rejected is one
\* the trigger handed on (to event.waitUntil), for either trigger.
C12_FailureIsReported ==
  /\ CountOf("SYNC_FAILED") = Cardinality(DrainsAt("failed"))
  /\ CountOf("SYNC_COMPLETED") = Cardinality(DrainsAt("done"))
  /\ \A d \in DrainsAt("rejected") \cup DrainsAt("failed") :
       PromiseSink(drains[d].trigger) = "waitUntil"

\* C13 (sw.js, cache-first): every response the fetch handler has written
\* into the static cache, after a miss or by the background refresh, has
\* status 200 and type 'basic'.
C13_StaticHoldsOnlyBasic200 ==
  \A i \in 1..Len(fetches) :
    LET f == fetches[i] IN
    (script = SWJ /\ f.branch = "cache-first" /\ f.task = "stored"
     /\ f.taskCache = STATIC_CACHE_NAME)
      => f.taskResp.status = 200 /\ f.taskResp.type = "basic"

\* C14: every request the fetch listener answers network-first is
\* eventually answered (live response, cached fallback or error), also when
\* the network never settles.
C14_ApiEventuallyAnswered ==
  \A i \in 1..MaxEvents :
    (i <= Len(fetches) /\ fetches[i].branch = "network-first")
      ~> (i <= Len(fetches) /\ fetches[i].pc = "done")

\* C15: a drain sends each entry of its snapshot at most once (no request
\* occurs twice among its entries, and a settled entry is not sent again);
\* after a drain that ran alone an entry whose delivery failed is still in
\* the queue, and every trade left in the queue is one the drain attempted,
\* so that repeated drains remove every pending trade once the server
\* acknowledges.
C15_RetriedByNextDrain ==
  \A d \in 1..Len(drains) :
    /\ \A j, k \in 1..Len(drains[d].entries) :
         j # k => drains[d].entries[j].request # drains[d].entries[k].request
    /\ RanAlone(d) =>
         /\ Range(RejectedRequests(drains[d]))
              \subseteq Range(CacheKeys(ItemsOf(OFFLINE_DATA)))
         /\ \A u \in Range(CacheKeys(ItemsOf(OFFLINE_DATA))) :
              \E k \in 1..Len(drains[d].entries) :
                drains[d].entries[k].request = u /\ drains[d].entries[k].sent

\* C16: a drain that runs while the queue is empty is a no-op: opening the
\* store leaves the queue's content as it was, and when the snapshot it took
\* is empty the drain has no entry to send (no POST), its steps change no
\* cache object, and it broadcasts SYNC_COMPLETED {synced: 0, total: 0}.
C16_EmptyDrainIsNoOp ==
  [][\A d \in 1..Len(drains) :
       LET dr == drains[d]
           nd == drains'[d] IN
       /\ (dr.pc = "open" /\ nd.pc = "keys")
            => ItemsOf(OFFLINE_DATA)' = ItemsOf(OFFLINE_DATA)
       /\ (dr # nd /\ nd.pc \in {"entries", "done"} /\ nd.keys = <<>>)
            => /\ nd.entries = <<>>
               /\ objs' = objs
               /\ nd.pc = "done" =>
                    \E to \in BOOLEAN :
                      outbox' = Append(outbox, [type |-> "SYNC_COMPLETED", a |-> 0,
                                                b |-> 0, to |-> to])]_vars

\* A second drain right after one that synced everything.
W16_EmptyDrainIsNoOp ==
  /\ Len(drains) = 2 /\ Len(saves) = 0
  /\ drains[1].pc = "done" /\ Len(drains[1].entries) >= 1
  /\ \A k \in 1..Len(drains[1].entries) : drains[1].entries[k].st = "fulfilled"
  /\ drains[2].pc = "done" /\ drains[2].alone /\ drains[2].keys = <<>>
  /\ ItemsOf(OFFLINE_DATA) = <<>>
  /\ outbox[Len(outbox)] = [type |-> "SYNC_COMPLETED", a |-> 0, b |-> 0, to |-> TRUE]

\* The status the script's network-first branch takes as successful.
Successful(r) == IF script = SVC THEN SvcCaches(r) ELSE SwCaches(r)

\* C17 (network-first): when the page has received the live response of a
\* network fetch that succeeded with a successful status, the copy is in the
\* cache under the request's url, where a fallback lookup would find it.
C17_StoredBeforeReturned ==
  \A i \in 1..Len(fetches) :
    LET f == fetches[i] IN
    (/\ f.branch = "network-first" /\ f.req.method = "GET"
     /\ f.pc = "done" /\ f.source = "network" /\ Successful(f.answer)
     /\ \A j \in 1..Len(fetches) : j # i => fetches[j].req.url # f.req.url)
      => CachesMatch(f.req) = f.answer

InFlight(d) == drains[d].pc \notin {"done", "failed"}
FulfilledBy(d) ==
  {drains[d].entries[k].request :
     k \in {j \in 1..Len(drains[d].entries) : drains[d].entries[j].st = "fulfilled"}}

C20_OnlySuccessfulSnapshots ==
  /\ \A i \in 1..Len(fetches) :
       (script = SVC /\ fetches[i].task = "stored" /\ SvcIsApi(fetches[i].req.url))
         => Ok(fetches[i].taskResp)
  /\ \A i \in 1..Len(markets) :
       markets[i].pc = "done" => Ok(markets[i].resp)

\* C18 (sw.js): once a run of cleanupOldCache has completed, the dynamic
\* cache holds no entry of an API host (one containing 'binance.com' or
\* 'binance.me') that was older than maxAge when the run read the clock.
C18_SweepRemovesExpired ==
  \A k \in 1..Len(sweeps) :
    sweeps[k].pc = "done" =>
      \A it \in Range(ItemsOf(DYNAMIC_CACHE_NAME)) :
        SwIsApi(it.url) => ~Expired(it.resp, sweeps[k].time)

=============================================================================
